---- MODULE Spec2Model ----
(***************************************************************************)
(* Model of the QPay payment front end: the profile setup modal, the user  *)
(* dashboard with its payment flow and status poll, the application shell  *)
(* with its registration effect, and the error handling of the data hooks. *)
(* Each component has its own specification over the shared variables.     *)
(***************************************************************************)
EXTENDS Integers, Sequences, FiniteSets, TLC

VARIABLES
    actor,          \* useActor().actor is non-null
    actorFetching,  \* useActor().isFetching
    modal,          \* ProfileSetupModal: open, name, showSuccess
    saveProfile,    \* useSaveCallerUserProfile mutation: status, variables
    modalLog,       \* what the modal handed to mutate / the backend, and its toasts
    fnProbe,        \* last direct application of the save mutationFn
    ud,             \* UserDashboard: its state, refs and timers
    existingInvoice,\* data of useGetUserInvoice
    pay,            \* the run of useMakeQPayPayment's mutationFn started by handlePay
    pollTick,       \* flips whenever the polling interval fires
    app,            \* AppContent: identity, registration state and mutation,
                    \* the role and profile queries
    backendProfile, \* the backend holds a profile for the caller
    hook            \* one use of a hook of useQueries and how its last backend call ended

vars == <<actor, actorFetching, modal, saveProfile, modalLog, fnProbe,
          ud, existingInvoice, pay, pollTick, app, backendProfile, hook>>

modalVars == <<modal, saveProfile, modalLog, fnProbe>>

envVars == <<actor, actorFetching>>

payVars == <<ud, existingInvoice, pay, pollTick>>

\* the variables of the other components
notModal == <<payVars, app, backendProfile, hook>>

notPay == <<modalVars, app, backendProfile, hook>>

notApp == <<modalVars, payVars, backendProfile, hook>>

notHook == <<modalVars, payVars, app, backendProfile>>

----------------------------------------------------------------------------
(* Bounds *)

MaxNameLen == 3

\* rejections of ensureCallerUserRole the backend answers within one login
MaxEnsureCalls == 9

\* largest attemptIndex for which the retry delay is evaluated
MaxAttemptIndex == 8

----------------------------------------------------------------------------
(* Strings are sequences of one-character strings. *)

Whitespace == {" ", "\t"}

Chars == Whitespace \cup {"a"}

Names == UNION {[1..n -> Chars] : n \in 0..MaxNameLen}

RECURSIVE TrimStart(_)
TrimStart(s) ==
    IF s = <<>> THEN <<>>
    ELSE IF Head(s) \in Whitespace THEN TrimStart(Tail(s)) ELSE s

RECURSIVE TrimEnd(_)
TrimEnd(s) ==
    IF s = <<>> THEN <<>>
    ELSE IF s[Len(s)] \in Whitespace THEN TrimEnd(SubSeq(s, 1, Len(s) - 1)) ELSE s

\* String.prototype.trim
Trim(s) == TrimEnd(TrimStart(s))

\* JavaScript truthiness of a string
Truthy(s) == s # <<>>

----------------------------------------------------------------------------
(* ProfileSetupModal and useSaveCallerUserProfile *)

NoName == <<"-">>

\* mutationFn of useSaveCallerUserProfile up to its backend call: the error
\* it throws, or "call" when actor.saveCallerUserProfile(profile) is invoked.
SaveMutationFn(hasActor, profileName) ==
    IF ~hasActor THEN "Actor not available"
    ELSE IF ~Truthy(profileName) \/ ~Truthy(Trim(profileName)) THEN "Name is required"
    ELSE "call"

\* The guard of handleSubmit: TRUE when it goes on to saveProfile.mutate.
SubmitPassesAlways(n) == TRUE

SubmitPasses(n) == Truthy(Trim(n))

\* useEffect on [open]: a closed modal resets its form state.
ModalEffects(m) ==
    IF ~m.open THEN [m EXCEPT !.name = <<>>, !.showSuccess = FALSE] ELSE m

ModalInit ==
    /\ modal = [open |-> FALSE, name |-> <<>>, showSuccess |-> FALSE]
    /\ saveProfile = [status |-> "idle", variables |-> NoName]
    /\ modalLog = [lastSubmit |-> "none", blankMutated |-> FALSE,
                   blankSaved |-> FALSE, toast |-> "none"]
    /\ fnProbe = [blank |-> FALSE, hasActor |-> FALSE, outcome |-> "none"]

\* App passes open = showProfileSetup.
SetOpen(b) ==
    /\ modal.open # b
    /\ modal' = ModalEffects([modal EXCEPT !.open = b])
    /\ UNCHANGED <<notModal, envVars, saveProfile, modalLog, fnProbe>>

\* onChange of the name input (disabled while the save is pending)
SetName(n) ==
    /\ modal.open /\ ~modal.showSuccess
    /\ saveProfile.status # "pending"
    /\ modal.name # n
    /\ modal' = [modal EXCEPT !.name = n]
    /\ UNCHANGED <<notModal, envVars, saveProfile, modalLog, fnProbe>>

\* onSubmit of the form
HandleSubmit ==
    /\ modal.open /\ ~modal.showSuccess
    /\ saveProfile.status # "pending"
    /\ IF ~SubmitPasses(modal.name)
       THEN /\ modalLog' = [modalLog EXCEPT !.lastSubmit = "returned"]
            /\ UNCHANGED saveProfile
       ELSE LET arg == Trim(modal.name)
                res == SaveMutationFn(actor, arg)
                blank == Trim(arg) = <<>>
            IN  IF res = "call"
                THEN /\ saveProfile' = [status |-> "pending", variables |-> arg]
                     /\ modalLog' = [modalLog EXCEPT
                            !.lastSubmit = "mutated",
                            !.blankMutated = @ \/ blank,
                            !.blankSaved = @ \/ blank]
                ELSE /\ saveProfile' = [status |-> "error", variables |-> NoName]
                     /\ modalLog' = [modalLog EXCEPT
                            !.lastSubmit = "mutated",
                            !.blankMutated = @ \/ blank,
                            !.toast = "error"]
    /\ UNCHANGED <<notModal, envVars, modal, fnProbe>>

\* actor.saveCallerUserProfile resolved: hook onSuccess, then the modal's
SaveResolve ==
    /\ saveProfile.status = "pending"
    /\ saveProfile' = [status |-> "success", variables |-> NoName]
    /\ modalLog' = [modalLog EXCEPT !.toast = "success"]
    /\ modal' = ModalEffects([modal EXCEPT !.showSuccess = TRUE])
    /\ UNCHANGED <<notModal, envVars, fnProbe>>

\* actor.saveCallerUserProfile rejected: hook onError toasts
SaveReject ==
    /\ saveProfile.status = "pending"
    /\ saveProfile' = [status |-> "error", variables |-> NoName]
    /\ modalLog' = [modalLog EXCEPT !.toast = "error"]
    /\ UNCHANGED <<notModal, envVars, modal, fnProbe>>

\* The mutationFn applied to an arbitrary profile name.
ApplySaveMutationFn(a, n) ==
    /\ fnProbe' = [blank |-> Trim(n) = <<>>, hasActor |-> a,
                   outcome |-> SaveMutationFn(a, n)]
    /\ UNCHANGED <<notModal, envVars, modal, saveProfile, modalLog>>

ModalActorChange(a) ==
    /\ actor # a
    /\ actor' = a
    /\ UNCHANGED <<actorFetching, modalVars, notModal>>

----------------------------------------------------------------------------
(* UserDashboard: state, effects and timers *)

\* truthiness of the token handed to setPaymentToken: "null" is null,
\* "empty" is an undefined or empty access_token, "tok" a non-empty one
TokenTruthy(t) == t = "tok"

UdInitial ==
    [mounted |-> FALSE, actor |-> FALSE,
     invoiceData |-> "null", paymentToken |-> "null", showQRModal |-> FALSE,
     paymentError |-> "null", paymentStatus |-> "pending",
     hasCheckedOnLoad |-> FALSE,
     pollingIntervalRef |-> FALSE, liveIntervals |-> 0,
     redirectTimer |-> FALSE, paidCleanup |-> FALSE, pollCleanup |-> FALSE,
     chk |-> "none", staleChk |-> FALSE]

\* What UserDashboard renders.
Screen(u) ==
    IF ~u.mounted THEN "none"
    ELSE IF u.invoiceData # "null" /\ u.paymentStatus # "paid" THEN "payment"
    ELSE IF u.paymentStatus = "paid" THEN "paid"
    ELSE "start"

\* if (pollingIntervalRef.current) { clearInterval(...); ... = null }
ClearPolling(u) ==
    IF u.pollingIntervalRef
    THEN [u EXCEPT !.pollingIntervalRef = FALSE, !.liveIntervals = @ - 1]
    ELSE u

CleanupAndRedirect(u) ==
    [ClearPolling(u) EXCEPT
        !.invoiceData = "null", !.paymentToken = "null", !.paymentError = "null",
        !.paymentStatus = "pending", !.hasCheckedOnLoad = FALSE,
        !.showQRModal = FALSE]

\* checkPaymentStatus.mutate from the component: the mutationFn throws
\* without an actor; only the latest mutate keeps its callbacks, a check
\* still in flight is superseded and goes on without them.
StartCheck(u, src) ==
    LET v == [u EXCEPT !.staleChk = @ \/ (u.chk # "none")]
    IN  IF u.actor THEN [v EXCEPT !.chk = src]
        ELSE IF src = "poll" THEN [v EXCEPT !.chk = "none", !.paymentStatus = "pending"]
        ELSE [v EXCEPT !.chk = "none"]

\* the auto-check effect
AutoCheckEffect(u, ei) ==
    IF ~u.hasCheckedOnLoad /\ ei = "unpaid" /\ TokenTruthy(u.paymentToken)
    THEN StartCheck([u EXCEPT !.hasCheckedOnLoad = TRUE], "auto")
    ELSE u

\* the paid effect: stop polling at once, redirect 2 seconds later
PaidEffect(u) ==
    IF u.paymentStatus = "paid"
    THEN [ClearPolling(u) EXCEPT !.redirectTimer = TRUE, !.paidCleanup = TRUE]
    ELSE [u EXCEPT !.paidCleanup = FALSE]

\* the condition under which the polling effect starts its interval
PollCondNoStatus(u) ==
    u.invoiceData # "null" /\ TokenTruthy(u.paymentToken)

PollCond(u) ==
    u.invoiceData # "null" /\ TokenTruthy(u.paymentToken) /\ u.paymentStatus # "paid"

\* the polling effect
PollingEffect(u) ==
    IF PollCond(u)
    THEN [ClearPolling(u) EXCEPT
            !.pollingIntervalRef = TRUE, !.liveIntervals = @ + 1,
            !.pollCleanup = TRUE]
    ELSE [u EXCEPT !.pollCleanup = FALSE]

\* cleanup functions of the effects whose dependencies changed
EffectCleanups(prev, u) ==
    LET a == IF prev.paymentStatus # u.paymentStatus /\ u.paidCleanup
             THEN [u EXCEPT !.redirectTimer = FALSE] ELSE u
    IN  IF a.pollCleanup THEN ClearPolling(a) ELSE a

\* One commit of UserDashboard after its state changed from prev to u: the
\* cleanups, then the effects in the order they are declared.
Commit(prev, u, ei) ==
    LET a == EffectCleanups(prev, u)
        b == AutoCheckEffect(a, ei)
        c == IF prev.paymentStatus # b.paymentStatus THEN PaidEffect(b) ELSE b
    IN  PollingEffect(c)

\* UserDashboard is rendered for an authenticated user with a ready actor.
DashMount ==
    /\ ~ud.mounted
    /\ actor /\ ~actorFetching
    /\ LET u == [UdInitial EXCEPT !.mounted = TRUE, !.actor = TRUE,
                                  !.liveIntervals = ud.liveIntervals]
       IN  ud' = PollingEffect(PaidEffect(AutoCheckEffect(u, existingInvoice)))
    /\ UNCHANGED <<envVars, notPay, existingInvoice, pay, pollTick>>

\* unmount: the cleanups of the paid, polling and unmount effects
DashUnmount ==
    /\ ud.mounted
    /\ LET a == IF ud.paidCleanup THEN [ud EXCEPT !.redirectTimer = FALSE] ELSE ud
           b == IF a.pollCleanup THEN ClearPolling(a) ELSE a
           c == ClearPolling(b)
       IN  ud' = [UdInitial EXCEPT !.liveIntervals = c.liveIntervals]
    /\ pay' = [pay EXCEPT !.live = FALSE]
    /\ UNCHANGED <<envVars, notPay, existingInvoice, pollTick>>

\* useGetUserInvoice delivers new data
ExistingInvoiceUpdate(v) ==
    /\ ud.mounted
    /\ existingInvoice # v
    /\ existingInvoice' = v
    /\ ud' = Commit(ud, ud, v)
    /\ UNCHANGED <<envVars, notPay, pay, pollTick>>

HandleBack ==
    /\ Screen(ud) = "payment"
    /\ ud' = Commit(ud, CleanupAndRedirect(ud), existingInvoice)
    /\ UNCHANGED <<envVars, notPay, existingInvoice, pay, pollTick>>

SetShowQRModal(b) ==
    /\ Screen(ud) = "payment"
    /\ ud.showQRModal # b
    /\ ud' = Commit(ud, [ud EXCEPT !.showQRModal = b], existingInvoice)
    /\ UNCHANGED <<envVars, notPay, existingInvoice, pay, pollTick>>

\* the 2-second redirect timer of the paid effect
RedirectFire ==
    /\ ud.redirectTimer
    /\ ud' = Commit(ud, CleanupAndRedirect([ud EXCEPT !.redirectTimer = FALSE]),
                    existingInvoice)
    /\ UNCHANGED <<envVars, notPay, existingInvoice, pay, pollTick>>

\* a live polling interval fires
PollFire ==
    /\ ud.liveIntervals > 0
    /\ pollTick' = ~pollTick
    /\ IF ud.mounted
       THEN ud' = Commit(ud, StartCheck([ud EXCEPT !.paymentStatus = "checking"], "poll"),
                         existingInvoice)
       ELSE UNCHANGED ud
    /\ UNCHANGED <<envVars, notPay, existingInvoice, pay>>

\* actor.checkPaymentStatus of the latest mutate resolved
CheckStatusReturn(isPaid) ==
    /\ ud.chk # "none"
    /\ LET u == IF isPaid THEN [ud EXCEPT !.chk = "none", !.paymentStatus = "paid"]
                ELSE IF ud.chk = "poll"
                     THEN [ud EXCEPT !.chk = "none", !.paymentStatus = "pending"]
                     ELSE [ud EXCEPT !.chk = "none"]
       IN  ud' = Commit(ud, u, existingInvoice)
    /\ UNCHANGED <<envVars, notPay, existingInvoice, pay, pollTick>>

\* actor.checkPaymentStatus of the latest mutate rejected
CheckStatusReject ==
    /\ ud.chk # "none"
    /\ LET u == IF ud.chk = "poll"
                THEN [ud EXCEPT !.chk = "none", !.paymentStatus = "pending"]
                ELSE [ud EXCEPT !.chk = "none"]
       IN  ud' = Commit(ud, u, existingInvoice)
    /\ UNCHANGED <<envVars, notPay, existingInvoice, pay, pollTick>>

\* actor.checkPaymentStatus of a superseded mutate resolved: only the
\* hook's own onSuccess runs (invalidation, success toast if paid), the
\* component's callbacks do not
StaleCheckReturn(isPaid) ==
    /\ ud.staleChk
    /\ ud' = [ud EXCEPT !.staleChk = FALSE]
    /\ UNCHANGED <<envVars, notPay, existingInvoice, pay, pollTick>>

PayActorChange(a, f) ==
    /\ ~ud.mounted
    /\ <<actor, actorFetching>> # <<a, f>>
    /\ actor' = a /\ actorFetching' = f
    /\ UNCHANGED <<notPay, payVars>>

----------------------------------------------------------------------------
(* useMakeQPayPayment: the payment flow started by handlePay *)

InvoiceDataKinds == {"bad", "noid", "id"}  \* unparsable JSON, no invoice_id, invoice_id

\* results of actor.checkForValidInvoice; invoiceData "empty" is a falsy string
CheckResults ==
    [hasValidInvoice : BOOLEAN, invoiceData : InvoiceDataKinds \cup {"empty"},
     hasAmount : BOOLEAN]

\* responses of actor.makeQPayTokenRequest: unparsable JSON, JSON without a
\* non-empty access_token, JSON with one
TokenResponses == {"bad", "notoken", "tok"}

\* results of actor.getValidOrCreateInvoice
CreateResults == [isNewInvoice : BOOLEAN, invoiceData : InvoiceDataKinds]

PayIdle ==
    [pc |-> "idle", live |-> FALSE, actor |-> FALSE, calls |-> <<>>, reused |-> FALSE,
     isNewInvoice |-> FALSE, invoiceData |-> "none", tokenResponse |-> "none",
     token |-> "null", outcome |-> "none", toast |-> "none"]

\* the existing-invoice branch of the flow
ReuseBranch(r) == r.hasValidInvoice /\ r.invoiceData # "empty" /\ r.hasAmount

\* token of the existing-invoice branch: a parse error leaves it null
ReuseToken(t) ==
    IF t = "bad" THEN "null" ELSE IF t = "notoken" THEN "empty" ELSE "tok"

\* the new-invoice branch goes on only with a parsed, non-empty access_token
NewTokenOkAlways(t) == TRUE

NewTokenOk(t) == t = "tok"

\* if (invoiceResponse.isNewInvoice && invoiceData.invoice_id)
ShouldStoreAnyInvoice(isNew, kind) == kind = "id"

ShouldStore(isNew, kind) == isNew /\ kind = "id"

\* handlePay after mutateAsync resolved or rejected: the state it sets, if
\* the component that started the run is still mounted
HandlePayDone(p, ok) ==
    IF ~(p.live /\ ud.mounted) THEN ud
    ELSE IF ok
    THEN Commit(ud, [ud EXCEPT !.invoiceData = p.invoiceData,
                                !.paymentToken = p.token], existingInvoice)
    ELSE Commit(ud, [ud EXCEPT !.paymentError = "error"], existingInvoice)

\* the mutationFn threw: onError toasts, handlePay's catch sets paymentError
PayFail(p, why) ==
    /\ pay' = [p EXCEPT !.pc = "idle", !.outcome = why, !.toast = "error",
                        !.live = FALSE]
    /\ ud' = HandlePayDone(p, FALSE)

\* the end of the mutationFn: recordPayment.mutate, the result, onSuccess
PayFinish(p) ==
    /\ pay' = [p EXCEPT !.pc = "idle", !.outcome = "ok", !.toast = "success",
                        !.live = FALSE,
                        !.calls = IF p.actor
                                  THEN Append(@, "recordPayment") ELSE @]
    /\ ud' = HandlePayDone(p, TRUE)

\* from JSON.parse(invoiceResponse.invoiceData) to the store call; the hooks
\* of the flow read the actor of the render that started it
PayAfterInvoice(p) ==
    IF p.invoiceData = "bad" THEN PayFail(p, "parse error")
    ELSE IF ShouldStore(p.isNewInvoice, p.invoiceData)
    THEN IF ~p.actor THEN PayFail(p, "Actor not available")
         ELSE /\ pay' = [p EXCEPT !.pc = "store",
                                  !.calls = Append(@, "storeUserInvoice")]
              /\ UNCHANGED ud
    ELSE PayFinish(p)

\* click on Pay: handlePay up to the first backend call
HandlePay ==
    /\ Screen(ud) = "start"
    /\ pay.pc = "idle"
    /\ LET u == [ud EXCEPT !.paymentError = "null", !.paymentStatus = "pending"]
       IN  IF ~ud.actor
           THEN /\ pay' = [PayIdle EXCEPT !.outcome = "Actor not available",
                                          !.toast = "error"]
                /\ ud' = Commit(ud, [u EXCEPT !.paymentError = "error"], existingInvoice)
           ELSE /\ pay' = [PayIdle EXCEPT !.pc = "check", !.live = TRUE,
                                          !.actor = ud.actor,
                                          !.calls = <<"checkForValidInvoice">>]
                /\ ud' = Commit(ud, u, existingInvoice)
    /\ UNCHANGED <<envVars, notPay, existingInvoice, pollTick>>

CheckInvoiceReturn(r) ==
    /\ pay.pc = "check"
    /\ IF ReuseBranch(r)
       THEN pay' = [pay EXCEPT !.pc = "tokenReuse", !.reused = TRUE,
                               !.isNewInvoice = FALSE, !.invoiceData = r.invoiceData,
                               !.calls = Append(@, "makeQPayTokenRequest")]
       ELSE pay' = [pay EXCEPT !.pc = "tokenNew",
                               !.calls = Append(@, "makeQPayTokenRequest")]
    /\ UNCHANGED <<envVars, notPay, ud, existingInvoice, pollTick>>

TokenReturn(t) ==
    /\ pay.pc \in {"tokenReuse", "tokenNew"}
    /\ IF pay.pc = "tokenReuse"
       THEN PayAfterInvoice([pay EXCEPT !.tokenResponse = t, !.token = ReuseToken(t)])
       ELSE IF NewTokenOk(t)
       THEN /\ pay' = [pay EXCEPT !.pc = "create", !.tokenResponse = t,
                                  !.token = ReuseToken(t),
                                  !.calls = Append(@, "getValidOrCreateInvoice")]
            /\ UNCHANGED ud
       ELSE PayFail([pay EXCEPT !.tokenResponse = t], "Failed to parse token")
    /\ UNCHANGED <<envVars, notPay, existingInvoice, pollTick>>

CreateInvoiceReturn(c) ==
    /\ pay.pc = "create"
    /\ PayAfterInvoice([pay EXCEPT !.isNewInvoice = c.isNewInvoice,
                                   !.invoiceData = c.invoiceData])
    /\ UNCHANGED <<envVars, notPay, existingInvoice, pollTick>>

StoreInvoiceReturn ==
    /\ pay.pc = "store"
    /\ PayFinish(pay)
    /\ UNCHANGED <<envVars, notPay, existingInvoice, pollTick>>

\* the backend call the run is waiting for rejected
PayCallReject ==
    /\ pay.pc # "idle"
    /\ PayFail(pay, "backend error")
    /\ UNCHANGED <<envVars, notPay, existingInvoice, pollTick>>

PayInit ==
    /\ ud = UdInitial
    /\ existingInvoice = "null"
    /\ pay = PayIdle
    /\ pollTick = FALSE


----------------------------------------------------------------------------
(* AppContent: registration, the role and profile queries, the view *)

\* retry: 3 of useEnsureUserRegistration
RegistrationRetry == 3

AppInitial ==
    [identityInitializing |-> TRUE, identity |-> FALSE,
     registrationComplete |-> FALSE, registrationAttempted |-> FALSE,
     initError |-> FALSE, retryTimers |-> 0,
     regStatus |-> "idle", regPhase |-> "none", failureCount |-> 0,
     regForLogin |-> FALSE,
     roleData |-> "none", roleFetching |-> FALSE, roleFetched |-> FALSE,
     roleThrew |-> FALSE, roleError |-> FALSE,
     profileData |-> "none", profileFetching |-> FALSE, profileFetched |-> FALSE,
     ensureCalls |-> 0, mutationCalls |-> 0, regRuns |-> 0,
     registeredThisLogin |-> FALSE, retryWait |-> 0, pendingRuns |-> 0,
     roleCallThisLogin |-> FALSE, profileCallThisLogin |-> FALSE]

IsAuthenticated(a) == a.identity

IsActorReady(act, fetching) == act /\ ~fetching

\* enabled of useGetCallerUserRole and useGetCallerUserProfile
QueriesEnabledNoRegistration(a, act, fetching) == act /\ ~fetching

QueriesEnabled(a, act, fetching) == act /\ ~fetching /\ a.registrationComplete

\* isLoading and isFetched as the two hooks return them
RoleLoading(a, fetching) == fetching \/ (a.roleFetching /\ a.roleData = "none")

RoleFetched(a, act) == act /\ a.registrationComplete /\ a.roleFetched

ProfileLoading(a, fetching) == fetching \/ (a.profileFetching /\ a.profileData = "none")

ProfileFetched(a, act) == act /\ a.registrationComplete /\ a.profileFetched

IsLoadingUserDataNoProfile(a, act, fetching) ==
    IsAuthenticated(a) /\
        (\/ ~IsActorReady(act, fetching)
         \/ ~a.registrationComplete
         \/ RoleLoading(a, fetching)
         \/ ~RoleFetched(a, act))

IsLoadingUserData(a, act, fetching) ==
    IsAuthenticated(a) /\
        (\/ ~IsActorReady(act, fetching)
         \/ ~a.registrationComplete
         \/ ProfileLoading(a, fetching)
         \/ RoleLoading(a, fetching)
         \/ ~RoleFetched(a, act))

ShowProfileSetup(a, act, fetching) ==
    /\ IsAuthenticated(a) /\ a.registrationComplete
    /\ ~ProfileLoading(a, fetching) /\ ProfileFetched(a, act)
    /\ a.profileData = "null"

\* what AppContent renders
ViewNoUserDataScreen(a, act, fetching) ==
    IF a.identityInitializing THEN "Initializing"
    ELSE IF fetching /\ ~act THEN "Connecting"
    ELSE IF IsAuthenticated(a) /\ ~act THEN "ConnectionError"
    ELSE IF ~IsAuthenticated(a) THEN "LandingPage"
    ELSE IF a.roleData = "admin" THEN "AdminDashboard"
    ELSE IF a.roleData = "user" THEN "UserDashboard"
    ELSE "AccessPending"

View(a, act, fetching) ==
    IF a.identityInitializing THEN "Initializing"
    ELSE IF fetching /\ ~act THEN "Connecting"
    ELSE IF IsLoadingUserData(a, act, fetching) THEN "LoadingUserData"
    ELSE IF IsAuthenticated(a) /\ ~act THEN "ConnectionError"
    ELSE IF ~IsAuthenticated(a) THEN "LandingPage"
    ELSE IF a.roleData = "admin" THEN "AdminDashboard"
    ELSE IF a.roleData = "user" THEN "UserDashboard"
    ELSE "AccessPending"

\* Header is rendered only in the last return of AppContent
HeaderShown(a, act, fetching) ==
    View(a, act, fetching) \in
        {"LandingPage", "AdminDashboard", "UserDashboard", "AccessPending"}

\* queryFn of useGetCallerUserRole on the backend's answer r ("throw" when
\* actor.getCallerUserRole rejects)
RoleQueryFnRethrow(a, r) ==
    IF r = "throw"
    THEN [a EXCEPT !.roleFetching = FALSE, !.roleFetched = TRUE,
                   !.roleThrew = TRUE, !.roleError = TRUE]
    ELSE [a EXCEPT !.roleFetching = FALSE, !.roleFetched = TRUE,
                   !.roleData = r, !.roleThrew = FALSE, !.roleError = FALSE]

RoleQueryFn(a, r) ==
    [a EXCEPT !.roleFetching = FALSE, !.roleFetched = TRUE,
              !.roleData = IF r = "throw" THEN "guest" ELSE r,
              !.roleThrew = (r = "throw"), !.roleError = FALSE]

\* queryFn of useGetCallerUserProfile: every error becomes null
ProfileQueryFn(a, r) ==
    [a EXCEPT !.profileFetching = FALSE, !.profileFetched = TRUE,
              !.profileData = IF r = "throw" THEN "null" ELSE r]

\* a fetch of the two queries starts; without an actor the queryFn throws
StartRoleFetch(a, act) ==
    IF act THEN [a EXCEPT !.roleFetching = TRUE,
                          !.roleCallThisLogin = @ \/ a.identity]
    ELSE [a EXCEPT !.roleError = TRUE, !.roleFetched = TRUE]

StartProfileFetch(a, act) ==
    IF act THEN [a EXCEPT !.profileFetching = TRUE,
                          !.profileCallThisLogin = @ \/ a.identity]
    ELSE [a EXCEPT !.profileFetched = TRUE]

\* retryDelay of useEnsureUserRegistration, in milliseconds
Min(x, y) == IF x <= y THEN x ELSE y

RetryDelayNoCap(attemptIndex) == 1000 * 2 ^ attemptIndex

RetryDelay(attemptIndex) == Min(1000 * 2 ^ attemptIndex, 5000)

\* retry: 3: a failed attempt is retried while failureCount < 3
ShouldRetryAlways(failureCount) == TRUE

ShouldRetry(failureCount) == failureCount < RegistrationRetry

\* the registration effect
RegistrationEffectUnguarded(a, act, fetching) ==
    IF IsAuthenticated(a) /\ IsActorReady(act, fetching)
    THEN [a EXCEPT !.registrationAttempted = TRUE, !.initError = FALSE,
                   !.regStatus = "pending", !.regPhase = "call",
                   !.failureCount = 0, !.regForLogin = TRUE,
                   !.ensureCalls = @ + 1, !.mutationCalls = 1, !.regRuns = @ + 1,
                   !.pendingRuns = @ + 1]
    ELSE a

RegistrationEffect(a, act, fetching) ==
    IF /\ IsAuthenticated(a) /\ IsActorReady(act, fetching)
       /\ ~a.registrationAttempted /\ a.regStatus # "pending"
    THEN [a EXCEPT !.registrationAttempted = TRUE, !.initError = FALSE,
                   !.regStatus = "pending", !.regPhase = "call",
                   !.failureCount = 0, !.regForLogin = TRUE,
                   !.ensureCalls = @ + 1, !.mutationCalls = 1, !.regRuns = @ + 1,
                   !.pendingRuns = @ + 1]
    ELSE a

\* the logout effect, run when isAuthenticated changed
LogoutEffectAttemptedOnly(prev, a) ==
    IF prev.identity # a.identity /\ ~IsAuthenticated(a)
    THEN [a EXCEPT !.registrationAttempted = FALSE, !.initError = FALSE]
    ELSE a

LogoutEffect(prev, a) ==
    IF prev.identity # a.identity /\ ~IsAuthenticated(a)
    THEN [a EXCEPT !.registrationComplete = FALSE,
                   !.registrationAttempted = FALSE, !.initError = FALSE]
    ELSE a

\* an enabled query without data fetches
QueryObservers(a, act, fetching) ==
    LET b == IF QueriesEnabled(a, act, fetching) /\ ~a.roleFetching /\ ~a.roleFetched
             THEN StartRoleFetch(a, act) ELSE a
    IN  IF QueriesEnabled(b, act, fetching) /\ ~b.profileFetching /\ ~b.profileFetched
        THEN StartProfileFetch(b, act) ELSE b

\* one commit of AppContent after its state changed from prev to a: the
\* effects of the two useQuery hooks (called before the component's own
\* effects), the registration effect, the logout effect, and the render
\* that the logout effect's setState causes
AppCommit(prev, a, act, fetching) ==
    LET q == QueryObservers(a, act, fetching)
        b == RegistrationEffect(q, act, fetching)
        c == LogoutEffect(prev, b)
        d == QueryObservers(c, act, fetching)
    IN  RegistrationEffect(d, act, fetching)

\* useInternetIdentity finished loading a stored identity, if any
IdentityInitDone(auth) ==
    /\ app.identityInitializing
    /\ app' = AppCommit(app, [app EXCEPT !.identityInitializing = FALSE,
                                         !.identity = auth],
                        actor, actorFetching)
    /\ UNCHANGED <<envVars, notApp>>

\* login() from the landing page or the header
Login ==
    /\ View(app, actor, actorFetching) = "LandingPage"
    /\ app' = AppCommit(app, [app EXCEPT !.identity = TRUE, !.regForLogin = FALSE,
                                         !.registeredThisLogin = FALSE,
                                         !.roleCallThisLogin = FALSE,
                                         !.profileCallThisLogin = FALSE,
                                         !.ensureCalls = 0, !.mutationCalls = 0,
                                         !.regRuns = 0],
                        actor, actorFetching)
    /\ UNCHANGED <<envVars, notApp>>

\* queryClient.clear(): the cached queries and their fetches are dropped
QueryClientClear(a) ==
    [a EXCEPT !.roleData = "none", !.roleFetching = FALSE,
              !.roleFetched = FALSE, !.roleThrew = FALSE, !.roleError = FALSE,
              !.profileData = "none", !.profileFetching = FALSE,
              !.profileFetched = FALSE]

\* Header.handleAuth of an authenticated user: await clear(), then
\* queryClient.clear(); clearedFirst tells whether the cache is cleared
\* before or after AppContent has rendered without the identity
Logout(clearedFirst) ==
    /\ IsAuthenticated(app)
    /\ HeaderShown(app, actor, actorFetching)
    /\ LET out == [app EXCEPT !.identity = FALSE, !.regForLogin = FALSE,
                              !.registeredThisLogin = FALSE,
                              !.roleCallThisLogin = FALSE,
                              !.profileCallThisLogin = FALSE]
       IN  app' = IF clearedFirst
                  THEN AppCommit(app, QueryClientClear(out), actor, actorFetching)
                  ELSE QueryClientClear(AppCommit(app, out, actor, actorFetching))
    /\ UNCHANGED <<envVars, notApp>>

\* useActor delivers another actor state
AppActorChange(a, f) ==
    /\ <<actor, actorFetching>> # <<a, f>>
    /\ actor' = a /\ actorFetching' = f
    /\ app' = AppCommit(app, app, a, f)
    /\ UNCHANGED notApp

\* actor.ensureCallerUserRole resolved: onSuccess of the hook and of mutate
EnsureResolve ==
    /\ app.regPhase = "call"
    /\ app' = AppCommit(app, [app EXCEPT
                    !.regStatus = "success", !.regPhase = "none",
                    !.pendingRuns = @ - 1,
                    !.registrationComplete = TRUE,
                    !.registeredThisLogin = @ \/ app.regForLogin],
                        actor, actorFetching)
    /\ UNCHANGED <<envVars, notApp>>

\* actor.ensureCallerUserRole rejected: a retry is scheduled, or the
\* mutation fails and mutate's onError starts the 2-second timer
EnsureReject ==
    /\ app.regPhase = "call"
    /\ app.ensureCalls < MaxEnsureCalls
    /\ IF ShouldRetry(app.failureCount)
       THEN app' = [app EXCEPT !.regPhase = "wait", !.failureCount = @ + 1,
                               !.retryWait = RetryDelay(app.failureCount)]
       ELSE app' = AppCommit(app, [app EXCEPT
                        !.regStatus = "error", !.regPhase = "none",
                        !.failureCount = @ + 1, !.pendingRuns = @ - 1,
                        !.initError = TRUE, !.retryTimers = @ + 1],
                             actor, actorFetching)
    /\ UNCHANGED <<envVars, notApp>>

\* the retryDelay of the mutation elapsed: the next attempt is made
EnsureRetryFire ==
    /\ app.regPhase = "wait"
    /\ app' = [app EXCEPT !.regPhase = "call", !.ensureCalls = @ + 1,
                          !.mutationCalls = @ + 1, !.retryWait = 0]
    /\ UNCHANGED <<envVars, notApp>>

\* the 2-second timer of mutate's onError
RetryTimerFireNoReset ==
    /\ app.retryTimers > 0
    /\ app' = AppCommit(app, [app EXCEPT !.retryTimers = @ - 1,
                                         !.initError = FALSE],
                        actor, actorFetching)
    /\ UNCHANGED <<envVars, notApp>>

RetryTimerFire ==
    /\ app.retryTimers > 0
    /\ app' = AppCommit(app, [app EXCEPT !.retryTimers = @ - 1,
                                         !.registrationAttempted = FALSE,
                                         !.initError = FALSE],
                        actor, actorFetching)
    /\ UNCHANGED <<envVars, notApp>>

\* actor.getCallerUserRole answered
RoleReturn(r) ==
    /\ app.roleFetching
    /\ app' = AppCommit(app, RoleQueryFn(app, r), actor, actorFetching)
    /\ UNCHANGED <<envVars, notApp>>

\* ProfileSetupModal is rendered, in the last return of AppContent, with
\* open = showProfileSetup
ModalOpen(a, act, fetching) ==
    HeaderShown(a, act, fetching) /\ ShowProfileSetup(a, act, fetching)

\* actor.getCallerUserProfile answered: the stored profile, null when the
\* backend holds none, or an error
ProfileReturn(r) ==
    /\ app.profileFetching
    /\ r = "some" => backendProfile
    /\ r = "null" => ~backendProfile
    /\ app' = AppCommit(app, ProfileQueryFn(app, r), actor, actorFetching)
    /\ UNCHANGED <<envVars, notApp>>

\* the save started from the open modal resolved: the backend holds the
\* profile, onSuccess of useSaveCallerUserProfile invalidates both queries
ProfileSaved ==
    /\ ModalOpen(app, actor, actorFetching)
    /\ backendProfile' = TRUE
    /\ app' = AppCommit(app, StartRoleFetch(StartProfileFetch(app, actor), actor),
                        actor, actorFetching)
    /\ UNCHANGED <<envVars, modalVars, payVars, hook>>

\* an enabled query is fetched again (invalidated, stale, refocused)
RoleRefetch ==
    /\ QueriesEnabled(app, actor, actorFetching)
    /\ ~app.roleFetching
    /\ app' = AppCommit(app, StartRoleFetch(app, actor), actor, actorFetching)
    /\ UNCHANGED <<envVars, notApp>>

ProfileRefetch ==
    /\ QueriesEnabled(app, actor, actorFetching)
    /\ ~app.profileFetching
    /\ app' = AppCommit(app, StartProfileFetch(app, actor), actor, actorFetching)
    /\ UNCHANGED <<envVars, notApp>>

----------------------------------------------------------------------------
(* The hooks of useQueries and what each does with a backend error *)

QueryHooks ==
    {"useGetCallerUserProfile", "useGetCallerUserRole", "useIsCallerAdmin",
     "useGetQPayCredentials", "useGetQPayInvoiceConfig", "useGetUserPayments",
     "useGetAllPayments", "useGetAllInvoices", "useGetInvoiceConfigForUser",
     "useGetUserInvoice"}

MutationHooks ==
    {"useEnsureUserRegistration", "useSaveCallerUserProfile",
     "useSaveQPayCredentials", "useSaveQPayInvoiceConfig", "useRecordPayment",
     "useMakeQPayPayment", "useStoreUserInvoice", "useCheckPaymentStatus"}

Hooks == QueryHooks \cup MutationHooks

\* what the message of a backend error contains
ErrorKinds == {"Unauthorized", "QPay credentials not found", "other"}

\* the queryFn catches the error and returns a value in its place
CatchFallback(h) == h \in QueryHooks \ {"useGetQPayInvoiceConfig"}

\* the catch block or onError of the hook calls toast.error
ErrorToastNever(h, e) == FALSE

ErrorToast(h, e) ==
    CASE h \in {"useGetQPayCredentials", "useGetQPayInvoiceConfig",
                "useGetUserPayments", "useGetAllPayments", "useGetAllInvoices"}
            -> e = "Unauthorized"
      [] h \in {"useSaveCallerUserProfile", "useSaveQPayCredentials",
                "useSaveQPayInvoiceConfig", "useMakeQPayPayment"}
            -> TRUE
      [] OTHER -> FALSE

\* retry of the hooks whose function can throw on a backend error
HookRetry(h) ==
    CASE h = "useEnsureUserRegistration" -> RegistrationRetry
      [] h = "useGetQPayInvoiceConfig" -> 1
      [] OTHER -> 0

HookIdle ==
    [name |-> "none", phase |-> "idle", status |-> "idle", failureCount |-> 0,
     lastError |-> "none", fallback |-> FALSE, toast |-> FALSE]

\* a component uses the hook: its backend call is made
HookCall(h) ==
    /\ hook.phase # "inflight"
    /\ hook' = [HookIdle EXCEPT !.name = h, !.phase = "inflight", !.status = "pending"]
    /\ UNCHANGED <<envVars, notHook>>

HookResolve ==
    /\ hook.phase = "inflight"
    /\ hook' = [hook EXCEPT !.phase = "settled", !.status = "success",
                             !.lastError = "none", !.fallback = FALSE, !.toast = FALSE]
    /\ UNCHANGED <<envVars, notHook>>

\* the backend call rejects with an error of kind e
HookReject(e) ==
    /\ hook.phase = "inflight"
    /\ LET h == hook.name
           fb == CatchFallback(h)
           again == ~fb /\ hook.failureCount < HookRetry(h)
       IN  hook' = [hook EXCEPT
                !.phase = IF again THEN "inflight" ELSE "settled",
                !.status = IF fb THEN "success" ELSE IF again THEN "pending" ELSE "error",
                !.failureCount = @ + 1,
                !.lastError = e, !.fallback = fb, !.toast = ErrorToast(h, e)]
    /\ UNCHANGED <<envVars, notHook>>

----------------------------------------------------------------------------

Init ==
    /\ actor = FALSE
    /\ actorFetching = FALSE
    /\ ModalInit
    /\ PayInit
    /\ app = AppInitial
    /\ backendProfile \in BOOLEAN
    /\ hook = HookIdle

NextModal ==
    \/ \E b \in BOOLEAN : SetOpen(b)
    \/ \E n \in Names : SetName(n)
    \/ HandleSubmit
    \/ SaveResolve
    \/ SaveReject
    \/ \E a \in BOOLEAN, n \in Names : ApplySaveMutationFn(a, n)
    \/ \E a \in BOOLEAN : ModalActorChange(a)

SpecModal == Init /\ [][NextModal]_vars

NextPay ==
    \/ DashMount
    \/ DashUnmount
    \/ \E v \in {"null", "unpaid", "paid"} : ExistingInvoiceUpdate(v)
    \/ HandleBack
    \/ \E b \in BOOLEAN : SetShowQRModal(b)
    \/ RedirectFire
    \/ PollFire
    \/ \E b \in BOOLEAN : CheckStatusReturn(b)
    \/ CheckStatusReject
    \/ \E b \in BOOLEAN : StaleCheckReturn(b)
    \/ \E a \in BOOLEAN, f \in BOOLEAN : PayActorChange(a, f)
    \/ HandlePay
    \/ \E r \in CheckResults : CheckInvoiceReturn(r)
    \/ \E t \in TokenResponses : TokenReturn(t)
    \/ \E c \in CreateResults : CreateInvoiceReturn(c)
    \/ StoreInvoiceReturn
    \/ PayCallReject

SpecPay == Init /\ [][NextPay]_vars

NextApp ==
    \/ \E auth \in BOOLEAN : IdentityInitDone(auth)
    \/ Login
    \/ \E clearedFirst \in BOOLEAN : Logout(clearedFirst)
    \/ \E a \in BOOLEAN, f \in BOOLEAN : AppActorChange(a, f)
    \/ EnsureResolve
    \/ EnsureReject
    \/ EnsureRetryFire
    \/ RetryTimerFire
    \/ \E r \in {"admin", "user", "guest", "throw"} : RoleReturn(r)
    \/ \E r \in {"null", "some", "throw"} : ProfileReturn(r)
    \/ ProfileSaved
    \/ RoleRefetch
    \/ ProfileRefetch

SpecApp == Init /\ [][NextApp]_vars

\* timers that are set do fire, and a backend that is called again and
\* again eventually accepts the registration
SpecAppLive ==
    /\ Init /\ [][NextApp]_vars
    /\ WF_vars(EnsureRetryFire)
    /\ WF_vars(RetryTimerFire)
    /\ SF_vars(EnsureResolve)

NextHooks ==
    \/ \E h \in Hooks : HookCall(h)
    \/ HookResolve
    \/ \E e \in ErrorKinds : HookReject(e)

SpecHooks == Init /\ [][NextHooks]_vars

----------------------------------------------------------------------------
\* C1: a name whose trim is empty never reaches the save call: handleSubmit
\* hands no blank name to saveProfile.mutate, the backend's
\* saveCallerUserProfile never receives one, and the mutationFn applied to a
\* blank name never calls the backend and, with an actor present, rejects
\* with 'Name is required'.
C1_BlankNameNeverSaved ==
    /\ ~modalLog.blankMutated
    /\ ~modalLog.blankSaved
    /\ saveProfile.status = "pending" => Trim(saveProfile.variables) # <<>>
    /\ (fnProbe.outcome # "none" /\ fnProbe.blank) =>
          /\ fnProbe.outcome # "call"
          /\ fnProbe.hasActor => fnProbe.outcome = "Name is required"

\* a whitespace-only name was submitted and handleSubmit returned, and the
\* mutationFn was applied to a blank name with an actor present
C1_Witness ==
    /\ modal.open /\ modal.name = <<" ", "\t">>
    /\ modalLog.lastSubmit = "returned" /\ saveProfile.status = "idle"
    /\ fnProbe.hasActor /\ fnProbe.blank /\ fnProbe.outcome = "Name is required"

----------------------------------------------------------------------------
(* Claims about UserDashboard and the payment flow (SpecPay) *)

Called(c) == \E i \in 1..Len(pay.calls) : pay.calls[i] = c

TimesCalled(c) == Cardinality({i \in 1..Len(pay.calls) : pay.calls[i] = c})

CallRank(c) ==
    CASE c = "checkForValidInvoice" -> 1
      [] c = "makeQPayTokenRequest" -> 2
      [] c = "getValidOrCreateInvoice" -> 3
      [] c = "storeUserInvoice" -> 4
      [] OTHER -> 5

\* C2: whenever the payment screen is shown (invoiceData set, paymentStatus
\* not 'paid') a polling interval is active.
C2_PollWhilePaymentShown ==
    Screen(ud) = "payment" => (ud.pollingIntervalRef /\ ud.liveIntervals > 0)

\* C3: the poll is cleared on success, unmount and navigation: whenever
\* paymentStatus is 'paid', or the payment state has been reset by
\* cleanupAndRedirect, or the component is unmounted, pollingIntervalRef is
\* null and no interval is live; the interval fires only from the payment
\* screen; and a cleared poll is started again only by a handlePay whose
\* payment flow succeeded.
C3_PollCleared ==
    [][ /\ (~ud'.mounted \/ ud'.paymentStatus = "paid" \/ ud'.invoiceData = "null")
            => (~ud'.pollingIntervalRef /\ ud'.liveIntervals = 0)
        /\ pollTick' # pollTick
            => (ud.pollingIntervalRef /\ Screen(ud) = "payment")
        /\ (~ud.pollingIntervalRef /\ ud'.pollingIntervalRef)
            => (pay.pc # "idle" /\ pay'.pc = "idle" /\ pay'.outcome = "ok")
      ]_vars

\* a poll that was running has been cleared by a confirmed payment
C3_Witness ==
    /\ ud.mounted /\ ud.paymentStatus = "paid"
    /\ ud.invoiceData # "null" /\ TokenTruthy(ud.paymentToken)
    /\ ~ud.pollingIntervalRef /\ ud.liveIntervals = 0 /\ ud.redirectTimer
    /\ pollTick

\* C5: a run that reuses an existing valid invoice makes no
\* makeQPayTokenRequest call.
C5_NoTokenRequestOnReuse ==
    pay.reused => ~Called("makeQPayTokenRequest")

\* C6: the backend calls of a run are made in the order check, token
\* request, invoice creation, invoice storage: checkForValidInvoice is the
\* first call; getValidOrCreateInvoice is called only when no valid invoice
\* was found and after a token response with a non-empty access_token (any
\* other token response fails the run with 'Failed to parse token' and no
\* invoice is created); storeUserInvoice only after getValidOrCreateInvoice
\* returned.
C6_CallOrder ==
    /\ pay.calls # <<>> => pay.calls[1] = "checkForValidInvoice"
    /\ \A i, j \in 1..Len(pay.calls) :
          i < j => CallRank(pay.calls[i]) < CallRank(pay.calls[j])
    /\ Called("getValidOrCreateInvoice") =>
          /\ ~pay.reused
          /\ Called("makeQPayTokenRequest")
          /\ pay.tokenResponse = "tok" /\ TokenTruthy(pay.token)
    /\ (~pay.reused /\ pay.tokenResponse \in {"bad", "notoken"}) =>
          /\ pay.outcome = "Failed to parse token"
          /\ ~Called("getValidOrCreateInvoice")
    /\ Called("storeUserInvoice") =>
          /\ Called("getValidOrCreateInvoice")
          /\ pay.invoiceData \in InvoiceDataKinds

\* a run that made all four calls in order and succeeded
C6_Witness ==
    /\ pay.outcome = "ok"
    /\ pay.calls = <<"checkForValidInvoice", "makeQPayTokenRequest",
                     "getValidOrCreateInvoice", "storeUserInvoice", "recordPayment">>

\* C7: an invoice is stored only if it was newly created: no run that
\* reuses an existing invoice calls storeUserInvoice, no run calls it
\* twice, and a run in which getValidOrCreateInvoice returned
\* isNewInvoice = true with a non-empty invoice_id calls it exactly once.
C7_StoreOnlyNewInvoice ==
    /\ pay.reused => ~Called("storeUserInvoice")
    /\ Called("storeUserInvoice") => (pay.isNewInvoice /\ pay.invoiceData = "id")
    /\ TimesCalled("storeUserInvoice") <= 1
    /\ (pay.isNewInvoice /\ pay.invoiceData = "id") => TimesCalled("storeUserInvoice") = 1

\* one run stored its new invoice and ended, another reused an invoice with
\* an invoice_id and ended without storing
C7_Witness ==
    /\ pay.outcome = "ok" /\ pay.pc = "idle"
    /\ pay.isNewInvoice /\ pay.invoiceData = "id"
    /\ TimesCalled("storeUserInvoice") = 1

----------------------------------------------------------------------------
(* Claims about AppContent (SpecApp) *)

\* C4 as stated: while the user stays logged in and the backend keeps
\* rejecting, the ensureCallerUserRole calls of the application stay within
\* the retry bound of the registration call (1 call and 3 retries).
C4_TotalCallsBounded ==
    app.ensureCalls <= RegistrationRetry + 1

\* C4 as amended: each run of the registration mutation makes at most
\* 1 + 3 ensureCallerUserRole calls, so the calls of one login number at
\* most 4 times the runs started in it; the runs themselves are started
\* again after every failure.
C4_CallsBoundedPerRun ==
    /\ app.mutationCalls <= RegistrationRetry + 1
    /\ app.ensureCalls <= (RegistrationRetry + 1) * app.regRuns

\* a second run of the mutation has used up its retries
C4_Witness ==
    /\ app.identity /\ app.regRuns = 2
    /\ app.mutationCalls = RegistrationRetry + 1
    /\ app.ensureCalls = 2 * (RegistrationRetry + 1)
    /\ app.regStatus = "error"

\* C8: when actor.getCallerUserRole throws, the role query succeeds with
\* 'guest' and is never in an error state, and an authenticated user with
\* that result is shown neither dashboard: past the loading and error
\* screens the view is 'Access Pending'.
C8_FailedRoleFetchIsGuest ==
    app.roleThrew =>
        /\ app.roleData = "guest" /\ ~app.roleError /\ app.roleFetched
        /\ IsAuthenticated(app) =>
              /\ View(app, actor, actorFetching) \notin {"AdminDashboard", "UserDashboard"}
              /\ HeaderShown(app, actor, actorFetching)
                    => View(app, actor, actorFetching) = "AccessPending"

\* the role fetch of a registered user threw and 'Access Pending' is shown
C8_Witness ==
    /\ app.identity /\ app.registrationComplete /\ app.roleThrew
    /\ View(app, actor, actorFetching) = "AccessPending"

\* C10: while a user is logged in, a getCallerUserRole or
\* getCallerUserProfile call has been issued in this login only if an
\* ensureCallerUserRole call made in this login has succeeded.
C10_FetchAfterRegistration ==
    (IsAuthenticated(app) /\ (app.roleCallThisLogin \/ app.profileCallThisLogin))
        => app.registeredThisLogin

\* both fetches are in flight right after a registration that succeeded at
\* its second attempt
C10_Witness ==
    /\ app.identity /\ app.registeredThisLogin
    /\ app.roleFetching /\ app.profileFetching
    /\ app.roleCallThisLogin /\ app.profileCallThisLogin
    /\ app.roleData = "none" /\ app.regRuns = 1 /\ app.ensureCalls = 2

\* C11: whenever ProfileSetupModal is open, the backend holds no profile
\* for the current user.
C11_ModalOnlyWithoutProfile ==
    ModalOpen(app, actor, actorFetching) => ~backendProfile

LoadingScreens == {"Initializing", "Connecting", "LoadingUserData"}

\* C12: past the loading screens exactly one of LandingPage,
\* AdminDashboard, UserDashboard and 'Access Pending' is rendered:
\* LandingPage iff the user is not authenticated, AdminDashboard only for
\* an authenticated user whose fetched role is admin, UserDashboard only
\* for one whose fetched role is user, 'Access Pending' for any other role.
C12_ViewByAuthAndRole ==
    LET v == View(app, actor, actorFetching)
        fetchedRole == RoleFetched(app, actor) /\ app.roleData # "none"
    IN  v \notin LoadingScreens =>
            /\ v \in {"LandingPage", "AdminDashboard", "UserDashboard", "AccessPending"}
            /\ v = "LandingPage" <=> ~app.identity
            /\ v = "AdminDashboard" <=>
                   (app.identity /\ fetchedRole /\ app.roleData = "admin")
            /\ v = "UserDashboard" <=>
                   (app.identity /\ fetchedRole /\ app.roleData = "user")
            /\ v = "AccessPending" <=>
                   (app.identity /\ fetchedRole /\ app.roleData \notin {"admin", "user"})

\* the backend answered guest and 'Access Pending' is rendered
C12_Witness ==
    /\ View(app, actor, actorFetching) = "AccessPending"
    /\ app.roleData = "guest" /\ ~app.roleThrew /\ app.profileFetched

\* C13: for an authenticated user a loading screen is rendered whenever the
\* actor is not ready, registration is not complete, the profile or the
\* role is loading, or the role has not been fetched.
C13_LoadingUntilReady ==
    (/\ app.identity
     /\ \/ ~(actor /\ ~actorFetching)
        \/ ~app.registrationComplete
        \/ ProfileLoading(app, actorFetching)
        \/ RoleLoading(app, actorFetching)
        \/ ~RoleFetched(app, actor))
        => View(app, actor, actorFetching) \in LoadingScreens

\* the role has arrived and only the profile is still loading
C13_Witness ==
    /\ app.identity /\ actor /\ ~actorFetching /\ app.registrationComplete
    /\ RoleFetched(app, actor) /\ ~RoleLoading(app, actorFetching)
    /\ ProfileLoading(app, actorFetching)
    /\ View(app, actor, actorFetching) = "LoadingUserData"

C15_RetryCountAndDelay ==
    /\ app.mutationCalls <= 4
    /\ app.regPhase = "wait" =>
           /\ app.failureCount \in 1..3
           /\ app.mutationCalls = app.failureCount
           /\ app.retryWait = <<1000, 2000, 4000>>[app.failureCount]
    /\ \A n \in 0..MaxAttemptIndex :
           /\ RetryDelay(n) <= 5000
           /\ RetryDelay(n) <= RetryDelay(n + 1)
           /\ RetryDelay(n) = IF n <= 2 THEN <<1000, 2000, 4000>>[n + 1] ELSE 5000

\* the mutation waits 4000 ms before its third retry, the fourth call
C15_Witness ==
    /\ app.regPhase = "wait" /\ app.failureCount = 3 /\ app.retryWait = 4000

\* the user is authenticated and the actor is ready
StaysReady == app.identity /\ actor /\ ~actorFetching

\* C16: if from some point on the user stays authenticated and the actor
\* stays ready, then registrationComplete eventually becomes and stays
\* true; and the 2-second timer started by a failed registration mutation
\* fires, resetting registrationAttempted.
C16_RegistrationCompletes ==
    /\ <>[]StaysReady => <>[]app.registrationComplete
    /\ (app.retryTimers > 0) ~> (app.retryTimers = 0 /\ app.regPhase # "wait")

\* registration completed in the run started by the retry timer
C16_Witness ==
    /\ StaysReady /\ app.registrationComplete
    /\ app.regRuns = 2 /\ app.mutationCalls = 1 /\ app.retryTimers = 0

\* C17: at most one registration mutation is in flight at any time, and it
\* is the one the mutation's status reports as pending.
C17_OneRegistrationInFlight ==
    /\ app.pendingRuns <= 1
    /\ app.pendingRuns = 1 <=> app.regStatus = "pending"

\* a run started by the retry timer is in flight, waiting for its retry
C17_Witness ==
    /\ app.pendingRuns = 1 /\ app.regRuns = 2 /\ app.regPhase = "wait"
    /\ app.retryTimers = 0 /\ app.registrationAttempted

----------------------------------------------------------------------------
(* Claims about the confirmed payment (SpecPay) *)

\* the payment state of UserDashboard has its initial values
PaymentStateReset(u) ==
    /\ u.invoiceData = "null" /\ u.paymentToken = "null"
    /\ u.paymentError = "null" /\ u.paymentStatus = "pending"
    /\ ~u.hasCheckedOnLoad /\ ~u.showQRModal

\* C18: whenever a status check of the mounted component reports paid,
\* paymentStatus becomes 'paid' and the success screen is shown with the
\* redirect timer set; and the firing of that timer resets all payment
\* state to its initial values.
C18_PaidLeadsToStart ==
    [][/\ (ud.mounted /\ (CheckStatusReturn(TRUE) \/ StaleCheckReturn(TRUE)))
           => (ud'.paymentStatus = "paid" /\ Screen(ud') = "paid" /\ ud'.redirectTimer)
       /\ RedirectFire => PaymentStateReset(ud')]_vars

----------------------------------------------------------------------------
(* Claims about the hooks (SpecHooks) *)

\* hooks whose onError only logs to the console
SilentHooks ==
    {"useEnsureUserRegistration", "useRecordPayment", "useStoreUserInvoice",
     "useCheckPaymentStatus"}

\* C9 as stated: every failing backend call of a hook ends with the hook
\* resolving to a fallback value or with an error toast.
C9_EveryErrorHandled ==
    hook.lastError # "none" => (hook.fallback \/ hook.toast)

\* C9 as amended: a failing backend call ends with a fallback value or an
\* error toast for every hook except useEnsureUserRegistration,
\* useRecordPayment, useStoreUserInvoice and useCheckPaymentStatus, and
\* except useGetQPayInvoiceConfig when the error is not 'Unauthorized';
\* in the excepted cases the error is neither replaced nor toasted and the
\* hook, once its retries are used up, is in the error state.
C9_ErrorsHandledExceptSilent ==
    hook.lastError # "none" =>
        IF \/ hook.name \in SilentHooks
           \/ hook.name = "useGetQPayInvoiceConfig" /\ hook.lastError # "Unauthorized"
        THEN /\ ~hook.fallback /\ ~hook.toast
             /\ hook.phase = "settled" => hook.status = "error"
        ELSE hook.fallback \/ hook.toast

\* a save mutation failed and toasted its error
C9_Witness ==
    /\ hook.name = "useSaveQPayCredentials" /\ hook.phase = "settled"
    /\ hook.lastError = "other" /\ hook.toast /\ hook.status = "error"

====
